---- MODULE Spec2Model ----
(***************************************************************************)
(* Real spherical harmonics of e3nn (src/e3nn/rsh.py).                     *)
(*                                                                         *)
(* Tensors are modelled per sample: a tensor of shape [N] is a sequence of *)
(* N scalars, a tensor of shape [N, K] a sequence of N rows of K entries.  *)
(*                                                                         *)
(* Scalars.  Directions are axis aligned integer vectors, so that the L2   *)
(* norm, the quotient by it, atan2 and the sines and cosines of multiples  *)
(* of a quarter turn are exact integers.  A float is [nan, v]: IEEE NaN    *)
(* or the integer v.  An angle is a float counted in quarter turns.        *)
(*                                                                         *)
(* A coefficient of poly_legendre(l)[m] is c * N(l, m), where c is the     *)
(* integer coefficient of d^(l+m)/dz^(l+m) (z^2-1)^l and N(l, m) is the    *)
(* irrational factor (-1)^l/(2^l l!) sqrt((2l+1)/(4 pi) (l-m)!/(l+m)!),    *)
(* common to all terms of the polynomial; it is carried as the tag         *)
(* n = <<l, m>>.  The factors of spherical_harmonics_alpha are             *)
(* sqrt(2) sin(k alpha), 1, sqrt(2) cos(k alpha): the integer sin or cos   *)
(* is v, and f, k name the factor.                                         *)
(***************************************************************************)
EXTENDS Integers, Sequences, FiniteSets, TLC

VARIABLES cache, builds, evicted, res, pc

vars == <<cache, builds, evicted, res, pc>>

\* ------------------------------------------------------------------ bounds
MaxDeg == 3
MaxLen == 2
NKeys == 131
MaxBuilds == 2

\* lru_cache() with no argument keeps the 128 most recently used keys
LruMaxSize == 128
\* the accelerator is used for max(ls) <= 10
CudaMaxL == 10

\* ----------------------------------------------------------------- helpers
RECURSIVE SeqSum(_)
SeqSum(s) == IF s = <<>> THEN 0 ELSE Head(s) + SeqSum(Tail(s))

RECURSIVE Concat(_)
Concat(ss) == IF ss = <<>> THEN <<>> ELSE Head(ss) \o Concat(Tail(ss))

Abs(n) == IF n < 0 THEN -n ELSE n

\* Python's max(ls)
Max(ls) == CHOOSE x \in {ls[i] : i \in DOMAIN ls} : \A i \in DOMAIN ls : ls[i] <= x

\* Python's range(a, b) as a list
Range(a, b) == [i \in 1..(IF b > a THEN b - a ELSE 0) |-> a + i - 1]

\* Python's s[a:b] for a, b >= 0 (the bounds are clamped to the length)
Slice(s, a, b) ==
    LET hi == IF b > Len(s) THEN Len(s) ELSE b
    IN  IF a >= hi THEN <<>> ELSE [i \in 1..(hi - a) |-> s[a + i]]

RECURSIVE Pow(_, _)
Pow(b, e) == IF e <= 0 THEN 1 ELSE b * Pow(b, e - 1)

ISqrt(n) == CHOOSE r \in 0..n : r * r <= n /\ (r + 1) * (r + 1) > n

\* width of the block of degree l
Width(l) == 2 * l + 1

\* sum(2 * l + 1 for l in ls)
TotalWidth(ls) == SeqSum([j \in DOMAIN ls |-> Width(ls[j])])

\* the offset i of the j-th block: i += 2 * l + 1 after each block
Offset(ls, j) == SeqSum([t \in 1..(j - 1) |-> Width(ls[t])])

\* ------------------------------------------------------------------ floats
NaN == [nan |-> TRUE, v |-> 0]
Fin(n) == [nan |-> FALSE, v |-> n]

\* a / b; the only quotient by a zero norm is 0 / 0 = NaN, every other
\* quotient of the directions used is exact
FDiv(a, b) ==
    IF a.nan \/ b.nan \/ b.v = 0 THEN NaN
    ELSE Fin((IF (a.v < 0) = (b.v < 0) THEN 1 ELSE -1) * (Abs(a.v) \div Abs(b.v)))

\* pow(x, e) for an integer e >= 0: pow(NaN, 0) is 1
FPow(x, e) == IF e = 0 THEN Fin(1) ELSE IF x.nan THEN NaN ELSE Fin(Pow(x.v, e))

FAbs(x) == IF x.nan THEN NaN ELSE Fin(Abs(x.v))

\* sin and cos of n quarter turns
SinQ(n) == <<0, 1, 0, -1>>[(n % 4) + 1]
CosQ(n) == <<1, 0, -1, 0>>[(n % 4) + 1]

\* torch.atan2(y, x) in quarter turns, for axis aligned (x, y)
Atan2Q(y, x) ==
    IF x.nan \/ y.nan THEN NaN
    ELSE IF y.v > 0 THEN Fin(1)
    ELSE IF y.v < 0 THEN Fin(-1)
    ELSE IF x.v < 0 THEN Fin(2) ELSE Fin(0)

\* ------------------------------------------------- coefficient generator
RECURSIVE Factorial(_)
Factorial(n) == IF n <= 0 THEN 1 ELSE n * Factorial(n - 1)

Binomial(n, k) == Factorial(n) \div (Factorial(k) * Factorial(n - k))

\* n (n-1) ... (n-k+1): the factor of d^k/dz^k z^n
RECURSIVE Falling(_, _)
Falling(n, k) == IF k <= 0 THEN 1 ELSE n * Falling(n - 1, k - 1)

\* The terms of Poly(sympy_legendre(l, m), gens=(z, y)): y^m times the
\* (l+m)-th derivative of (z^2 - 1)^l = sum_j C(l, j) (-1)^(l-j) z^(2j),
\* scaled by N(l, m).  m is abs(m).
sympy_legendre(l, m) ==
    LET am == Abs(m)
        js == {j \in 0..l : 2 * j >= l + am}
        lo == CHOOSE j \in js : \A t \in js : j <= t
    IN  [i \in 1..Cardinality(js) |->
            LET j == lo + i - 1
            IN  [c  |-> Binomial(l, j) * (IF (l - j) % 2 = 0 THEN 1 ELSE -1)
                          * Falling(2 * j, l + am),
                 n  |-> <<l, am>>,
                 nz |-> 2 * j - l - am,
                 ny |-> am]]

\* ps, one polynomial per m in range(l + 1): empty for l < 0
poly_legendre(l) == [i \in 1..(IF l >= 0 THEN l + 1 ELSE 0) |-> sympy_legendre(l, i - 1)]

\* ------------------------------------------------------- alpha evaluator
\* [sqrt2 sin(l a), ..., sqrt2 sin(a), 1, sqrt2 cos(a), ..., sqrt2 cos(l a)]
\* arange(1, l + 1) and arange(l, 0, -1) are empty for l <= 0
spherical_harmonics_alpha(l, alpha) ==
    LET n == IF l > 0 THEN l ELSE 0
        sin == [i \in 1..n |->
                  LET k == n - i + 1
                  IN  [nan |-> alpha.nan, f |-> "sin", k |-> k,
                       v |-> IF alpha.nan THEN 0 ELSE SinQ(k * alpha.v)]]
        one == <<[nan |-> FALSE, f |-> "one", k |-> 0, v |-> 1]>>
        cos == [i \in 1..n |->
                  [nan |-> alpha.nan, f |-> "cos", k |-> i,
                   v |-> IF alpha.nan THEN 0 ELSE CosQ(i * alpha.v)]]
    IN  sin \o one \o cos

\* --------------------------------------------------------- polar factor
\* coef * z^nz * y^ny, the powers being given
TermValue(t, pz, py) ==
    IF pz.nan \/ py.nan THEN [nan |-> TRUE, v |-> 0, n |-> t.n]
    ELSE [nan |-> FALSE, v |-> t.c * pz.v * py.v, n |-> t.n]

\* val += term
AddValue(a, b) ==
    IF a.nan \/ b.nan THEN [nan |-> TRUE, v |-> 0, n |-> b.n]
    ELSE [nan |-> FALSE, v |-> a.v + b.v, n |-> b.n]

\* torch.zeros_like
ZeroValue == [nan |-> FALSE, v |-> 0, n |-> <<>>]

RECURSIVE EvalPoly(_, _, _, _)
\* for coef, (nz, ny) in poly: val += coef * pwz[nz] * pwy[ny]
EvalPoly(poly, pwz, pwy, val) ==
    IF poly = <<>> THEN val
    ELSE LET t == Head(poly)
         IN  EvalPoly(Tail(poly), pwz, pwy,
                      AddValue(val, TermValue(t, pwz[t.nz + 1], pwy[t.ny + 1])))

RECURSIVE MirrorAppend_right(_, _, _, _, _)
\* MirrorAppend putting both copies of val after p: p = p + [val] + [val]
MirrorAppend_right(polys, m, pwz, pwy, p) ==
    IF m > Len(polys) THEN p
    ELSE LET val == EvalPoly(polys[m], pwz, pwy, ZeroValue)
         IN  MirrorAppend_right(polys, m + 1, pwz, pwy,
                                IF m = 1 THEN Append(p, val) ELSE p \o <<val>> \o <<val>>)

RECURSIVE MirrorAppend(_, _, _, _, _)
\* m == 0: p.append(val); otherwise p = [val] + p + [val]
MirrorAppend(polys, m, pwz, pwy, p) ==
    IF m > Len(polys) THEN p
    ELSE LET val == EvalPoly(polys[m], pwz, pwy, ZeroValue)
         IN  MirrorAppend(polys, m + 1, pwz, pwy,
                          IF m = 1 THEN Append(p, val) ELSE <<val>> \o p \o <<val>>)

\* torch.stack of an empty list raises
_legendre_eval_polys(polys, pwz, pwy) ==
    LET p == MirrorAppend(polys, 1, pwz, pwy, <<>>)
    IN  IF p = <<>> THEN [status |-> "RuntimeError", out |-> <<>>]
        ELSE [status |-> "ok", out |-> p]

RECURSIVE LegendreBlocks(_, _, _, _)
LegendreBlocks(ls, j, zs, ys) ==
    IF j > Len(ls) THEN [status |-> "ok", out |-> <<>>]
    ELSE LET b == _legendre_eval_polys(poly_legendre(ls[j]), zs, ys)
         IN  IF b.status # "ok" THEN b
             ELSE LET rest == LegendreBlocks(ls, j + 1, zs, ys)
                  IN  IF rest.status # "ok" THEN rest
                      ELSE [status |-> "ok", out |-> b.out \o rest.out]

\* zs = [z**m for m in range(max(ls) + 1)], ys likewise; one block per l
legendre(ls, z, y) ==
    LET zs == [i \in 1..(IF Max(ls) >= 0 THEN Max(ls) + 1 ELSE 0) |-> FPow(z, i - 1)]
        ys == [i \in 1..(IF Max(ls) >= 0 THEN Max(ls) + 1 ELSE 0) |-> FPow(y, i - 1)]
    IN  LegendreBlocks(ls, 1, zs, ys)

spherical_harmonics_beta(ls, cosbeta, abssinbeta) == legendre(ls, cosbeta, abssinbeta)

\* ---------------------------------------------------------------- combiner
\* x_lm * x_m, one entry
MulValue(b, a) ==
    IF b.nan \/ a.nan THEN [nan |-> TRUE, v |-> 0, n |-> b.n, f |-> a.f, k |-> a.k]
    ELSE [nan |-> FALSE, v |-> b.v * a.v, n |-> b.n, f |-> a.f, k |-> a.k]

\* mul_m_lm taking the first 2l + 1 entries of x_m instead of the centred ones
mul_m_lm_uncentred(ls, x_m, x_lm) ==
    Concat([j \in DOMAIN ls |->
        LET l == ls[j]
            i == Offset(ls, j)
            lm == Slice(x_lm, i, i + 2 * l + 1)
            m == Slice(x_m, 0, 2 * l + 1)
        IN  [t \in 1..Len(lm) |-> MulValue(lm[t], m[t])]])

\* out.append(x_lm[i: i + 2l + 1] * x_m[lmax - l: lmax + l + 1]); i += 2l + 1
mul_m_lm(ls, x_m, x_lm) ==
    LET lmax == Len(x_m) \div 2
    IN  Concat([j \in DOMAIN ls |->
            LET l == ls[j]
                i == Offset(ls, j)
                lm == Slice(x_lm, i, i + 2 * l + 1)
                m == Slice(x_m, lmax - l, lmax + l + 1)
            IN  [t \in 1..Len(lm) |-> MulValue(lm[t], m[t])]])

\* ------------------------------------------------------ kernel specializer
DigitChar(d) == <<"0", "1", "2", "3", "4", "5", "6", "7", "8", "9">>[d + 1]

RECURSIVE Digits(_)
\* "{}".format(n)
Digits(n) ==
    IF n < 0 THEN <<"-">> \o Digits(-n)
    ELSE IF n < 10 THEN <<DigitChar(n)>>
    ELSE Digits(n \div 10) \o <<DigitChar(n % 10)>>

\* "l{}_{}".format(l, m)
KernelName(l, m) == <<"l">> \o Digits(l) \o <<"_">> \o Digits(m)

\* " + ".join("{:.25f} * z**{} * y**{}".format(c, zn, yn) for c, (zn, yn) in p):
\* the literal of the coefficient c * N(l, m) and the two exponents, per term
KernelFormula(p) == [i \in DOMAIN p |-> [c |-> p[i].c, n |-> p[i].n, zn |-> p[i].nz, yn |-> p[i].ny]]

\* ll_m: the lines "l{}_{} = formula", for l in ls, for m, p in enumerate(poly_legendre(l))
KernelAssignments(ls) ==
    Concat([j \in DOMAIN ls |->
        LET ps == poly_legendre(ls[j])
        IN  [i \in DOMAIN ps |-> [name |-> KernelName(ls[j], i - 1), formula |-> KernelFormula(ps[i])]]])

\* shb: one line per l, ", ".join("l{}_{}".format(l, abs(m)) for m in range(-l, l + 1)) + ","
KernelRows(ls) ==
    [j \in DOMAIN ls |->
        LET ms == Range(-ls[j], ls[j] + 1)
        IN  [t \in DOMAIN ms |-> KernelName(ls[j], Abs(ms[t]))]]

\* The body of _spherical_harmonics_alpha_z_y_jit: the template with lmax, ls,
\* ll_m and shb filled in, compiled.  A shb line without a name is the line ","
\* inside torch.stack([...]), a formula without a term is "l = ": neither compiles.
_spherical_harmonics_alpha_z_y_jit(ls) ==
    LET ll_m == KernelAssignments(ls)
        shb == KernelRows(ls)
    IN  [status |-> IF (\E j \in DOMAIN shb : shb[j] = <<>>)
                       \/ (\E a \in DOMAIN ll_m : ll_m[a].formula = <<>>)
                    THEN "SyntaxError" ELSE "ok",
         lmax |-> Max(ls), ls |-> ls, ll_m |-> ll_m, shb |-> Concat(shb)]

RECURSIVE KernelFormulaValue(_, _, _, _)
\* c * z**zn * y**yn + ..., left to right
KernelFormulaValue(formula, i, z, y) ==
    LET t == formula[i]
        term == TermValue(t, FPow(z, t.zn), FPow(y, t.yn))
    IN  IF i = 1 THEN term ELSE AddValue(KernelFormulaValue(formula, i - 1, z, y), term)

\* the value bound to a name when shb is evaluated: its last assignment in ll_m
KernelLookup(ll_m, name, z, y) ==
    LET as == {a \in DOMAIN ll_m : ll_m[a].name = name}
        last == CHOOSE a \in as : \A b \in as : b <= a
    IN  KernelFormulaValue(ll_m[last].formula, Len(ll_m[last].formula), z, y)

\* shb = torch.stack([...], dim=-1) of the generated module, for one sample
KernelPolar(f, z, y) == [t \in DOMAIN f.shb |-> KernelLookup(f.ll_m, f.shb[t], z, y)]

\* main(alpha, z, y) of the generated module, for one sample
KernelMain(f, alpha, z, y) ==
    mul_m_lm(f.ls, spherical_harmonics_alpha(f.lmax, alpha), KernelPolar(f, z, y))

\* f = _spherical_harmonics_alpha_z_y_jit(tuple(ls)); return f(alpha, z, y)
spherical_harmonics_alpha_z_y_jit(ls, alpha, z, y) ==
    LET f == _spherical_harmonics_alpha_z_y_jit(ls)
    IN  IF f.status # "ok" THEN [status |-> f.status, out |-> <<>>, kernel |-> TRUE]
        ELSE [status |-> "ok", kernel |-> TRUE,
              out |-> [s \in DOMAIN alpha |-> KernelMain(f, alpha[s], z[s], y[s])]]

\* the generic path: sha, shb, mul_m_lm
spherical_harmonics_alpha_z_y_cpu(ls, alpha, z, y) ==
    LET shb == [s \in DOMAIN alpha |-> spherical_harmonics_beta(ls, z[s], y[s])]
    IN  IF \E s \in DOMAIN shb : shb[s].status # "ok"
        THEN [status |-> "RuntimeError", out |-> <<>>, kernel |-> FALSE]
        ELSE [status |-> "ok", kernel |-> FALSE,
              out |-> [s \in DOMAIN alpha |->
                          mul_m_lm(ls, spherical_harmonics_alpha(Max(ls), alpha[s]), shb[s].out)]]

\* -------------------------------------------------------------- dispatcher
\* Normalize with the norm clamped away from zero
Normalize_clamped(v) ==
    LET n == ISqrt(v[1] * v[1] + v[2] * v[2] + v[3] * v[3])
        norm == Fin(IF n = 0 THEN 1 ELSE n)
    IN  [i \in 1..3 |-> FDiv(Fin(v[i]), norm)]

\* xyz / torch.norm(xyz, 2, -1, keepdim=True), one direction of integers
Normalize(v) ==
    LET norm == Fin(ISqrt(v[1] * v[1] + v[2] * v[2] + v[3] * v[3]))
    IN  [i \in 1..3 |-> FDiv(Fin(v[i]), norm)]

\* (x.pow(2) + y.pow(2)).sqrt()
BetaAsin(x, y) == IF x.nan \/ y.nan THEN NaN ELSE Fin(ISqrt(x.v * x.v + y.v * y.v))

spherical_harmonics_xyz_cpu(ls, xyz) ==
    LET xn == [s \in DOMAIN xyz |-> Normalize(xyz[s])]
        alpha == [s \in DOMAIN xyz |-> Atan2Q(xn[s][2], xn[s][1])]
        beta_cos == [s \in DOMAIN xyz |-> xn[s][3]]
        beta_asin == [s \in DOMAIN xyz |-> BetaAsin(xn[s][1], xn[s][2])]
    IN  spherical_harmonics_alpha_z_y_jit(ls, alpha, beta_cos, beta_asin)

\* [x] * n
Repeat(x, n) == [i \in 1..n |-> x]

\* norm_coef without the last run of an even lmax
norm_coef_no_tail(lmax) ==
    Concat([i \in 1..((lmax + 1) \div 2) |->
               Repeat(1, 4 * (i - 1) + 1) \o Repeat(-1, 4 * (i - 1) + 3)])

\* norm_coef: runs of 4 lh + 1 times +1 and 4 lh + 3 times -1, and a last run
\* of 2 lmax + 1 times +1 when lmax is even
norm_coef(lmax) ==
    Concat([i \in 1..((lmax + 1) \div 2) |->
               Repeat(1, 4 * (i - 1) + 1) \o Repeat(-1, 4 * (i - 1) + 3)])
    \o (IF lmax % 2 = 0 THEN Repeat(1, 2 * lmax + 1) ELSE <<>>)

\* CudaSelect returning every row of the accelerator, whatever ls
CudaSelect_all(ls, lmax, out) == out

\* if ls != list(range(lmax + 1)): out = torch.cat([out[l**2: (l + 1)**2] for l in ls])
CudaSelect(ls, lmax, out) ==
    IF ls # Range(0, lmax + 1)
    THEN Concat([j \in DOMAIN ls |-> Slice(out, ls[j] * ls[j], (ls[j] + 1) * (ls[j] + 1))])
    ELSE out

\* accel is the outcome of "from e3nn import cuda_rsh".  Row r of the
\* accelerator's output for a direction is the opaque value [row, x]; the
\* sign is the factor out.mul_(norm_coef) puts on it.
spherical_harmonics_xyz_cuda(ls, xyz, accel) ==
    IF accel # "ok" THEN [status |-> "ImportError", out |-> <<>>, kernel |-> FALSE]
    ELSE
    LET xn == [s \in DOMAIN xyz |-> Normalize(xyz[s])]
        lmax == Max(ls)
        rows == (lmax + 1) * (lmax + 1)
        nc == norm_coef(lmax)
        sel == CudaSelect(ls, lmax, Range(0, rows))
    IN  IF Len(nc) # rows /\ Len(nc) # 1
        THEN [status |-> "RuntimeError", out |-> <<>>, kernel |-> FALSE, norm_coef |-> nc]
        ELSE IF sel = <<>>
        THEN [status |-> "RuntimeError", out |-> <<>>, kernel |-> FALSE, norm_coef |-> nc]
        ELSE [status |-> "ok", kernel |-> FALSE, norm_coef |-> nc,
              out |-> [s \in DOMAIN xyz |->
                          [t \in DOMAIN sel |->
                              [row |-> sel[t],
                               sign |-> IF Len(nc) = 1 THEN nc[1] ELSE nc[sel[t] + 1],
                               x |-> xn[s]]]]]

\* spherical_harmonics_xyz without the except ImportError clause
spherical_harmonics_xyz_no_except(ls, xyz, device, requires_grad, accel) ==
    IF device = "cuda" /\ ~requires_grad /\ Max(ls) <= CudaMaxL
    THEN spherical_harmonics_xyz_cuda(ls, xyz, accel)
    ELSE spherical_harmonics_xyz_cpu(ls, xyz)

spherical_harmonics_xyz(ls, xyz, device, requires_grad, accel) ==
    IF device = "cuda" /\ ~requires_grad /\ Max(ls) <= CudaMaxL
    THEN LET r == spherical_harmonics_xyz_cuda(ls, xyz, accel)
         IN  IF r.status = "ImportError" THEN spherical_harmonics_xyz_cpu(ls, xyz) ELSE r
    ELSE spherical_harmonics_xyz_cpu(ls, xyz)

\* alpha and beta in quarter turns; dev and grad are <<alpha's, beta's>>
spherical_harmonics_alpha_beta(ls, alpha, beta, dev, grad, accel) ==
    LET xyz == [s \in DOMAIN alpha |->
                   <<SinQ(beta[s].v) * CosQ(alpha[s].v),
                     SinQ(beta[s].v) * SinQ(alpha[s].v),
                     CosQ(beta[s].v)>>]
        z == [s \in DOMAIN alpha |-> Fin(CosQ(beta[s].v))]
        y == [s \in DOMAIN alpha |-> FAbs(Fin(SinQ(beta[s].v)))]
        fallback == spherical_harmonics_alpha_z_y_jit(ls, alpha, z, y)
    IN  IF dev[1] = "cuda" /\ dev[2] = "cuda" /\ ~grad[1] /\ ~grad[2] /\ Max(ls) <= CudaMaxL
        THEN LET r == spherical_harmonics_xyz_cuda(ls, xyz, accel)
             IN  IF r.status = "ImportError" THEN fallback ELSE r
        ELSE fallback

\* --------------------------------------------------------- layout converter
RECURSIVE ExpandBlocks_uncentred(_, _, _)
\* ExpandBlocks writing each block from column 0 instead of lmax - l
ExpandBlocks_uncentred(ls, j, m) ==
    IF j > Len(ls) THEN m
    ELSE LET l == ls[j]
             i == Offset(ls, j)
         IN  ExpandBlocks_uncentred(ls, j + 1,
                [m EXCEPT ![j] =
                    [c \in DOMAIN m[j] |-> [k \in DOMAIN m[j][c] |->
                        IF c - 1 >= 0 /\ c - 1 < 2 * l + 1
                           /\ k - 1 >= i /\ k - 1 < i + 2 * l + 1
                        THEN (IF c - 1 = (k - 1) - i THEN 1 ELSE 0)
                        ELSE m[j][c][k]]]])

RECURSIVE ExpandBlocks_overlap(_, _, _)
\* ExpandBlocks without i += 2l + 1: every block starts at flat index 0
ExpandBlocks_overlap(ls, j, m) ==
    IF j > Len(ls) THEN m
    ELSE LET l == ls[j]
             lmax == Max(ls)
         IN  ExpandBlocks_overlap(ls, j + 1,
                [m EXCEPT ![j] =
                    [c \in DOMAIN m[j] |-> [k \in DOMAIN m[j][c] |->
                        IF c - 1 >= lmax - l /\ c - 1 < lmax + l + 1
                           /\ k - 1 >= 0 /\ k - 1 < 2 * l + 1
                        THEN (IF (c - 1) - (lmax - l) = k - 1 THEN 1 ELSE 0)
                        ELSE m[j][c][k]]]])

RECURSIVE ExpandBlocks(_, _, _)
\* m[j, lmax - l: lmax + l + 1, i: i + 2l + 1] = torch.eye(2l + 1), for each j
ExpandBlocks(ls, j, m) ==
    IF j > Len(ls) THEN m
    ELSE LET l == ls[j]
             lmax == Max(ls)
             i == Offset(ls, j)
         IN  ExpandBlocks(ls, j + 1,
                [m EXCEPT ![j] =
                    [c \in DOMAIN m[j] |-> [k \in DOMAIN m[j][c] |->
                        IF c - 1 >= lmax - l /\ c - 1 < lmax + l + 1
                           /\ k - 1 >= i /\ k - 1 < i + 2 * l + 1
                        THEN (IF (c - 1) - (lmax - l) = (k - 1) - i THEN 1 ELSE 0)
                        ELSE m[j][c][k]]]])

\* zeros(len(ls), 2 lmax + 1, sum(2l + 1)) and torch.eye(2l + 1) need sizes >= 0
spherical_harmonics_expand_matrix(ls) ==
    IF \E j \in DOMAIN ls : ls[j] < 0
    THEN [status |-> "RuntimeError", out |-> <<>>]
    ELSE [status |-> "ok",
          out |-> ExpandBlocks(ls, 1,
                     [j \in DOMAIN ls |-> [c \in 1..(2 * Max(ls) + 1) |->
                         [k \in 1..TotalWidth(ls) |-> 0]]])]

\* ------------------------------------------------------------ kernel cache
\* One more run recorded for key k
Bump(count, k) ==
    IF k \in DOMAIN count THEN [count EXCEPT ![k] = @ + 1] ELSE count @@ (k :> 1)

Count(count, k) == IF k \in DOMAIN count THEN count[k] ELSE 0

InCache(k) == \E i \in DOMAIN cache : cache[i] = k

\* lru_cache that runs the body at every miss and never stores its result
lru_cache_no_store(k) ==
    IF InCache(k)
    THEN /\ cache' = Append(SelectSeq(cache, LAMBDA x : x # k), k)
         /\ UNCHANGED <<builds, evicted>>
    ELSE /\ builds' = Bump(builds, k)
         /\ UNCHANGED <<cache, evicted>>

\* @lru_cache() around _spherical_harmonics_alpha_z_y_jit, called with
\* tuple(ls): a hit makes the key the most recently used one (the last of
\* cache); a miss runs the body, and stores the kernel it returns, dropping
\* the least recently used key when LruMaxSize keys are held.  A body that
\* raises stores nothing.
lru_cache(k) ==
    IF InCache(k)
    THEN /\ cache' = Append(SelectSeq(cache, LAMBDA x : x # k), k)
         /\ UNCHANGED <<builds, evicted>>
    ELSE /\ builds' = Bump(builds, k)
         /\ IF _spherical_harmonics_alpha_z_y_jit(k).status # "ok"
            THEN UNCHANGED <<cache, evicted>>
            ELSE IF Len(cache) >= LruMaxSize
            THEN /\ cache' = Append(Tail(cache), k)
                 /\ evicted' = Bump(evicted, Head(cache))
            ELSE /\ cache' = Append(cache, k)
                 /\ evicted' = evicted

\* ------------------------------------------------------------------ inputs
Degrees == (-1)..MaxDeg

LsSet == UNION {[1..n -> Degrees] : n \in 1..MaxLen}

\* batches of (alpha, z, y)
AngleBatches ==
    LET s1 == [alpha |-> Fin(1), z |-> Fin(2), y |-> Fin(3)]
        s2 == [alpha |-> Fin(-1), z |-> Fin(0), y |-> Fin(1)]
        s3 == [alpha |-> Fin(2), z |-> Fin(-1), y |-> Fin(0)]
        s4 == [alpha |-> NaN, z |-> NaN, y |-> NaN]
    IN  {<<s1>>, <<s2>>, <<s3, s1>>, <<s4, s2>>}

\* batches of directions
DirBatches ==
    {<<<<0, 0, 1>>>>, <<<<1, 0, 0>>>>, <<<<0, -2, 0>>>>, <<<<0, 0, 0>>>>,
     <<<<0, 0, 0>>, <<0, 0, -3>>>>, <<<<-1, 0, 0>>, <<0, 2, 0>>>>}

\* batches of (alpha, beta), in quarter turns
AlphaBetaBatches ==
    {<<[alpha |-> Fin(0), beta |-> Fin(0)]>>,
     <<[alpha |-> Fin(1), beta |-> Fin(1)]>>,
     <<[alpha |-> Fin(2), beta |-> Fin(1)], [alpha |-> Fin(-1), beta |-> Fin(2)]>>}

Devices == {"cpu", "cuda"}
Accel == {"ok", "ImportError"}

Field(b, name) == [s \in DOMAIN b |-> b[s][name]]

\* ----------------------------------------------------------------- actions
Init ==
    /\ cache = <<>>
    /\ builds = <<>>
    /\ evicted = <<>>
    /\ res = [op |-> "none"]
    /\ pc = "ready"

\* a call returns r; it went through the kernel cache when r.kernel
Return(call, r) ==
    /\ res' = call @@ r @@ [hit |-> r.kernel /\ InCache(call.ls)]
    /\ IF r.kernel THEN lru_cache(call.ls) ELSE UNCHANGED <<cache, builds, evicted>>

Call_poly_legendre ==
    /\ pc = "ready" /\ pc' = "done"
    /\ \E l \in Degrees :
         res' = [op |-> "poly_legendre", l |-> l, status |-> "ok", out |-> poly_legendre(l)]
    /\ UNCHANGED <<cache, builds, evicted>>

Call_expand_matrix ==
    /\ pc = "ready" /\ pc' = "done"
    /\ \E ls \in LsSet :
         res' = [op |-> "expand_matrix", ls |-> ls] @@ spherical_harmonics_expand_matrix(ls)
    /\ UNCHANGED <<cache, builds, evicted>>

Call_legendre ==
    /\ pc = "ready" /\ pc' = "done"
    /\ \E ls \in LsSet, b \in AngleBatches :
         LET one == legendre(ls, b[1].z, b[1].y)
         IN  res' = [op |-> "legendre", ls |-> ls, z |-> b[1].z, y |-> b[1].y] @@ one
    /\ UNCHANGED <<cache, builds, evicted>>

Call_alpha_z_y_cpu ==
    /\ pc = "ready" /\ pc' = "done"
    /\ \E ls \in LsSet, b \in AngleBatches :
         Return([op |-> "alpha_z_y_cpu", ls |-> ls, in |-> b],
                spherical_harmonics_alpha_z_y_cpu(ls, Field(b, "alpha"), Field(b, "z"), Field(b, "y")))

Call_alpha_z_y_jit ==
    /\ pc = "ready" /\ pc' = "done"
    /\ \E ls \in LsSet, b \in AngleBatches :
         Return([op |-> "alpha_z_y_jit", ls |-> ls, in |-> b],
                spherical_harmonics_alpha_z_y_jit(ls, Field(b, "alpha"), Field(b, "z"), Field(b, "y")))

Call_xyz_cpu ==
    /\ pc = "ready" /\ pc' = "done"
    /\ \E ls \in LsSet, xyz \in DirBatches :
         Return([op |-> "xyz_cpu", ls |-> ls, in |-> xyz], spherical_harmonics_xyz_cpu(ls, xyz))

Call_xyz_cuda ==
    /\ pc = "ready" /\ pc' = "done"
    /\ \E ls \in LsSet, xyz \in DirBatches, accel \in Accel :
         Return([op |-> "xyz_cuda", ls |-> ls, in |-> xyz, accel |-> accel],
                spherical_harmonics_xyz_cuda(ls, xyz, accel))

Call_xyz ==
    /\ pc = "ready" /\ pc' = "done"
    /\ \E ls \in LsSet, xyz \in DirBatches, device \in Devices,
          requires_grad \in BOOLEAN, accel \in Accel :
         Return([op |-> "xyz", ls |-> ls, in |-> xyz, accel |-> accel,
                 dev |-> <<device>>, grad |-> <<requires_grad>>],
                spherical_harmonics_xyz(ls, xyz, device, requires_grad, accel))

Call_alpha_beta ==
    /\ pc = "ready" /\ pc' = "done"
    /\ \E ls \in LsSet, b \in AlphaBetaBatches, dev \in Devices \X Devices,
          grad \in BOOLEAN \X BOOLEAN, accel \in Accel :
         Return([op |-> "alpha_beta", ls |-> ls, in |-> b, accel |-> accel,
                 dev |-> dev, grad |-> grad],
                spherical_harmonics_alpha_beta(ls, Field(b, "alpha"), Field(b, "beta"),
                                               dev, grad, accel))

Next ==
    \/ Call_poly_legendre
    \/ Call_expand_matrix
    \/ Call_legendre
    \/ Call_alpha_z_y_cpu
    \/ Call_alpha_z_y_jit
    \/ Call_xyz_cpu
    \/ Call_xyz_cuda
    \/ Call_xyz
    \/ Call_alpha_beta

Spec == Init /\ [][Next]_vars

\* ------------------------------------------- a process that keeps calling
\* The n-th distinct degree tuple requested: four degrees of 0..3
CacheKey(n) == <<(n \div 64) % 4, (n \div 16) % 4, (n \div 4) % 4, n % 4>>

CacheBatch == <<[alpha |-> Fin(1), z |-> Fin(2), y |-> Fin(3)]>>

InitCache ==
    /\ cache = <<>>
    /\ builds = <<>>
    /\ evicted = <<>>
    /\ res = [op |-> "none"]
    /\ pc = "serving"

Request(ls) ==
    Return([op |-> "alpha_z_y_jit", ls |-> ls, in |-> CacheBatch],
           spherical_harmonics_alpha_z_y_jit(ls, Field(CacheBatch, "alpha"),
                                             Field(CacheBatch, "z"), Field(CacheBatch, "y")))

\* a degree tuple never requested before
RequestFresh ==
    /\ pc = "serving" /\ pc' = pc
    /\ Cardinality(DOMAIN builds) < NKeys
    /\ Request(CacheKey(Cardinality(DOMAIN builds)))

\* the first degree tuple again
RequestAgain ==
    /\ pc = "serving" /\ pc' = pc
    /\ CacheKey(0) \in DOMAIN builds
    /\ InCache(CacheKey(0)) \/ builds[CacheKey(0)] < MaxBuilds
    /\ Request(CacheKey(0))

NextCache == RequestFresh \/ RequestAgain

SpecCache == InitCache /\ [][NextCache]_vars

\* ------------------------------------------------------------- properties
NonNeg(ls) == \A j \in DOMAIN ls : ls[j] >= 0

\* the flat position (from 1) of order m in the j-th block
Pos(ls, j, m) == Offset(ls, j) + m + ls[j] + 1

\* the polynomial of order m of poly_legendre(l) at (z, y)
PolyValue(l, m, z, y) ==
    EvalPoly(poly_legendre(l)[m + 1], [i \in 1..(l + 1) |-> FPow(z, i - 1)],
             [i \in 1..(l + 1) |-> FPow(y, i - 1)], ZeroValue)

\* the order m an entry of the CPU path stands for
SignedOrder(e) == IF e.f = "sin" THEN -e.k ELSE e.k

HasZeroNorm(xyz) == \E s \in DOMAIN xyz : xyz[s] = <<0, 0, 0>>

\* C1: for non-negative ls the specialized kernel returns, per sample, a
\* vector of width sum(2l+1) whose blocks follow ls, and the entry at
\* position m + l of the block of l is the polynomial of order |m| of
\* poly_legendre(l) times the alpha factor of index max(ls) + m.
C1_JitLayout ==
    (res.op = "alpha_z_y_jit" /\ NonNeg(res.ls)) =>
        /\ res.status = "ok"
        /\ Len(res.out) = Len(res.in)
        /\ \A s \in DOMAIN res.in :
            /\ Len(res.out[s]) = TotalWidth(res.ls)
            /\ \A j \in DOMAIN res.ls : \A m \in (-res.ls[j])..res.ls[j] :
                 res.out[s][Pos(res.ls, j, m)] =
                    MulValue(PolyValue(res.ls[j], Abs(m), res.in[s].z, res.in[s].y),
                             spherical_harmonics_alpha(Max(res.ls), res.in[s].alpha)
                                [Max(res.ls) + m + 1])

C1_Witness ==
    /\ res.op = "alpha_z_y_jit" /\ res.status = "ok"
    /\ Len(res.ls) = 2 /\ res.ls[1] > res.ls[2] /\ res.ls[2] >= 1
    /\ \E t \in DOMAIN res.out[1] : ~res.out[1][t].nan /\ res.out[1][t].v # 0

C3_AcceleratorFallback ==
    (/\ res.op \in {"xyz", "alpha_beta"}
     /\ \A i \in DOMAIN res.dev : res.dev[i] = "cuda" /\ ~res.grad[i]
     /\ Max(res.ls) <= CudaMaxL
     /\ res.accel = "ImportError") =>
        LET cpu == IF res.op = "xyz" THEN spherical_harmonics_xyz_cpu(res.ls, res.in)
                   ELSE spherical_harmonics_alpha_z_y_jit(res.ls, Field(res.in, "alpha"),
                            [s \in DOMAIN res.in |-> Fin(CosQ(res.in[s].beta.v))],
                            [s \in DOMAIN res.in |-> Fin(Abs(SinQ(res.in[s].beta.v)))])
        IN  /\ res.status # "ImportError"
            /\ res.status = cpu.status /\ res.out = cpu.out
            /\ res.kernel
            /\ NonNeg(res.ls) => res.status = "ok"

C3_Witness ==
    /\ res.op = "alpha_beta" /\ res.accel = "ImportError"
    /\ res.dev = <<"cuda", "cuda">> /\ res.grad = <<FALSE, FALSE>>
    /\ res.status = "ok" /\ res.kernel

\* C4: for lmax >= 0, norm_coef has (lmax+1)^2 entries, and the entry of
\* index l^2 + (m + l) is +1 for even l and -1 for odd l.
C4_NormCoefParity ==
    (res.op = "xyz_cuda" /\ res.accel = "ok" /\ Max(res.ls) >= 0) =>
        LET lmax == Max(res.ls)
        IN  /\ Len(res.norm_coef) = (lmax + 1) * (lmax + 1)
            /\ \A l \in 0..lmax : \A m \in (-l)..l :
                 res.norm_coef[l * l + (m + l) + 1] = (IF l % 2 = 0 THEN 1 ELSE -1)

C4_Witness ==
    /\ res.op = "xyz_cuda" /\ res.accel = "ok" /\ res.status = "ok"
    /\ Max(res.ls) = 3 /\ Len(res.norm_coef) = 16

\* C5: for non-negative ls the accelerator path returns, per sample, a
\* vector of width sum(2l+1) made of the rows l^2 .. (l+1)^2 - 1 of the
\* accelerator output, in the order of ls: the (l, m) layout of the CPU path.
C5_CudaLayout ==
    (res.op = "xyz_cuda" /\ res.accel = "ok" /\ NonNeg(res.ls)) =>
        LET cpu == spherical_harmonics_xyz_cpu(res.ls, res.in)
        IN  /\ res.status = "ok" /\ cpu.status = "ok"
            /\ Len(res.out) = Len(res.in)
            /\ \A s \in DOMAIN res.in :
                /\ Len(res.out[s]) = TotalWidth(res.ls)
                /\ Len(cpu.out[s]) = TotalWidth(res.ls)
                /\ \A j \in DOMAIN res.ls : \A m \in (-res.ls[j])..res.ls[j] :
                     LET l == res.ls[j]
                         e == res.out[s][Pos(res.ls, j, m)]
                         c == cpu.out[s][Pos(res.ls, j, m)]
                     IN  /\ e.row = l * l + (m + l)
                         /\ c.n[1] = l /\ SignedOrder(c) = m

C5_Witness ==
    /\ res.op = "xyz_cuda" /\ res.accel = "ok" /\ res.status = "ok"
    /\ Len(res.ls) = 2 /\ res.ls[1] = 3 /\ res.ls[2] = 1
    /\ Len(res.out[1]) = 10

\* C6: for non-negative ls, expand_matrix(ls) has shape
\* [len(ls), 2 max(ls) + 1, sum(2l+1)], and its entry [j, c, k] is 1 exactly
\* when k lies in the block of l_j and c = max(ls) - l_j + (k - block start).
C6_ExpandMatrixEntries ==
    (res.op = "expand_matrix" /\ NonNeg(res.ls)) =>
        LET ls == res.ls
            lmax == Max(ls)
        IN  /\ res.status = "ok"
            /\ Len(res.out) = Len(ls)
            /\ \A j \in DOMAIN ls :
                /\ Len(res.out[j]) = 2 * lmax + 1
                /\ \A c \in DOMAIN res.out[j] :
                    /\ Len(res.out[j][c]) = TotalWidth(ls)
                    /\ \A k \in DOMAIN res.out[j][c] :
                         res.out[j][c][k] =
                            (IF /\ k - 1 >= Offset(ls, j)
                                /\ k - 1 < Offset(ls, j) + 2 * ls[j] + 1
                                /\ c - 1 = lmax - ls[j] + ((k - 1) - Offset(ls, j))
                             THEN 1 ELSE 0)
                    /\ (c - 1 < lmax - ls[j] \/ c - 1 > lmax + ls[j]) =>
                         \A k \in DOMAIN res.out[j][c] : res.out[j][c][k] = 0

C6_Witness ==
    /\ res.op = "expand_matrix" /\ res.status = "ok"
    /\ Len(res.ls) = 2 /\ res.ls[1] = 1 /\ res.ls[2] = 3
    /\ res.out[1][3][1] = 1 /\ res.out[2][1][4] = 1

\* flat vector -> (degree, order) matrix: X[j, c] = sum_k M[j, c, k] v[k]
ToMatrix(M, v) ==
    [j \in DOMAIN M |-> [c \in DOMAIN M[j] |->
        SeqSum([k \in DOMAIN v |-> M[j][c][k] * v[k]])]]

\* (degree, order) matrix -> flat vector: v[k] = sum_{j, c} M[j, c, k] X[j, c]
ToFlat(M, X, width) ==
    [k \in 1..width |->
        SeqSum([j \in DOMAIN M |-> SeqSum([c \in DOMAIN M[j] |-> M[j][c][k] * X[j][c]])])]

\* the unit vectors of a width, a ramp and an alternating ramp
FlatVectors(width) ==
    {[k \in 1..width |-> IF k = u THEN 1 ELSE 0] : u \in 1..width}
    \cup {[k \in 1..width |-> k], [k \in 1..width |-> IF k % 2 = 0 THEN -k ELSE k + 2]}

\* C7: contracting a flat vector with expand_matrix(ls) and contracting the
\* result back with the same tensor gives the vector again.
C7_LayoutRoundTrip ==
    (res.op = "expand_matrix" /\ NonNeg(res.ls)) =>
        /\ res.status = "ok"
        /\ \A v \in FlatVectors(TotalWidth(res.ls)) :
             ToFlat(res.out, ToMatrix(res.out, v), TotalWidth(res.ls)) = v

C7_Witness ==
    /\ res.op = "expand_matrix" /\ res.status = "ok"
    /\ Len(res.ls) = 2 /\ res.ls[1] = 2 /\ res.ls[2] = 2
    /\ ToMatrix(res.out, [k \in 1..10 |-> k])[2][1] = 6

\* C8: a request for a negative degree fails at the call: poly_legendre(l)
\* with l < 0, and every evaluation entry point given an ls with a degree
\* < 0, reports a failure instead of returning a table or a vector.
C8_NegativeDegreeFails ==
    /\ (res.op = "poly_legendre" /\ res.l < 0) => res.status # "ok"
    /\ (/\ res.op \in {"legendre", "alpha_z_y_cpu", "alpha_z_y_jit", "xyz_cpu",
                       "xyz_cuda", "xyz", "alpha_beta"}
        /\ ~NonNeg(res.ls)
        /\ res.op = "xyz_cuda" => res.accel = "ok") => res.status # "ok"

\* C9 as stated: a direction of zero norm makes the call fail, on the CPU
\* path and on the accelerator path.
C9_ZeroNormFails ==
    (/\ res.op \in {"xyz_cpu", "xyz_cuda"}
     /\ res.op = "xyz_cuda" => res.accel = "ok"
     /\ NonNeg(res.ls)
     /\ HasZeroNorm(res.in)) => res.status # "ok"

\* C9 amended: a direction of zero norm raises nothing on either path: its
\* normalization is the NaN direction 0/0 and the call returns a row of the
\* usual width for it.  On the CPU path every entry of degree >= 1 of that
\* row is NaN, on the accelerator path the NaN direction is what the
\* accelerator is given; the rows of the other directions hold no NaN.
C9_ZeroNormGivesNaN ==
    (/\ res.op \in {"xyz_cpu", "xyz_cuda"}
     /\ res.op = "xyz_cuda" => res.accel = "ok"
     /\ NonNeg(res.ls)) =>
        /\ res.status = "ok"
        /\ Len(res.out) = Len(res.in)
        /\ \A s \in DOMAIN res.in :
            /\ Len(res.out[s]) = TotalWidth(res.ls)
            /\ \A t \in DOMAIN res.out[s] :
                 LET e == res.out[s][t]
                 IN  IF res.op = "xyz_cpu"
                     THEN (res.in[s] = <<0, 0, 0>> /\ e.n[1] >= 1 => e.nan)
                          /\ (res.in[s] # <<0, 0, 0>> => ~e.nan)
                     ELSE \A i \in 1..3 : e.x[i].nan <=> res.in[s] = <<0, 0, 0>>

C9_Witness ==
    /\ res.op = "xyz_cpu" /\ res.status = "ok"
    /\ Len(res.in) = 2 /\ res.in[1] = <<0, 0, 0>>
    /\ Len(res.ls) = 2 /\ res.ls[1] = 0 /\ res.ls[2] = 2
    /\ res.out[1][2].nan /\ ~res.out[2][4].nan

\* C10: for non-negative ls the generic path and the specialized kernel
\* return the same vector, of the same width, from the same polar factor,
\* in which the entry of order -m is the entry of order +m.
C10_CpuJitEquivalent ==
    (res.op \in {"alpha_z_y_cpu", "alpha_z_y_jit"} /\ NonNeg(res.ls)) =>
        LET alpha == Field(res.in, "alpha")
            z == Field(res.in, "z")
            y == Field(res.in, "y")
            cpu == spherical_harmonics_alpha_z_y_cpu(res.ls, alpha, z, y)
            jit == spherical_harmonics_alpha_z_y_jit(res.ls, alpha, z, y)
            f == _spherical_harmonics_alpha_z_y_jit(res.ls)
        IN  /\ cpu.status = "ok" /\ jit.status = "ok"
            /\ res.out = cpu.out /\ res.out = jit.out
            /\ \A s \in DOMAIN res.in :
                 LET pcpu == spherical_harmonics_beta(res.ls, z[s], y[s]).out
                     pjit == KernelPolar(f, z[s], y[s])
                 IN  /\ pcpu = pjit
                     /\ Len(res.out[s]) = Len(pcpu)
                     /\ \A j \in DOMAIN res.ls : \A m \in 1..res.ls[j] :
                          /\ pcpu[Pos(res.ls, j, -m)] = pcpu[Pos(res.ls, j, m)]
                          /\ pcpu[Pos(res.ls, j, m)].n = <<res.ls[j], m>>

C10_Witness ==
    /\ res.op = "alpha_z_y_cpu" /\ res.status = "ok"
    /\ Len(res.ls) = 2 /\ res.ls[1] = res.ls[2] /\ res.ls[1] = 2
    /\ ~res.out[1][1].nan /\ res.out[1][2].v # 0 /\ res.out[1][2] = res.out[1][7]

====
